---- MODULE Spec2Model ----
(***************************************************************************)
(* A model of drencher: the flood-fill board (board.rs), the island graph  *)
(* and the inline bit set of the exact solver (solver/exact.rs), and the   *)
(* level-synchronous search of Exact::solve.                               *)
(*                                                                         *)
(* Three specifications share the variables:                               *)
(*   SpecBoard  the Board operations called on small boards,               *)
(*   Spec       Exact::solve on small boards, followed by the replay of    *)
(*              bench.rs,                                                  *)
(*   SpecCap    Exact::solve on boards at the 256-node capacity limit.     *)
(***************************************************************************)
EXTENDS Integers, Sequences, FiniteSets, TLC

VARIABLES
    board,          \* the Board the caller holds: [size, cells (row-major)]
    call,           \* the last Board operation called and what it returned
    ndrench,        \* number of drench calls made on board so far
    pc,             \* position of Exact::solve: start, prune, expand, done,
                    \* verified, panic
    g,              \* Graph: [nodes |-> sequence of Node], node id i at nodes[i + 1]
    colored_nodes,  \* per colour c (at index c + 1) the Set of nodes of colour c
    states,         \* the level being processed (Vec<State>)
    new_states,     \* the level being collected
    depth,          \* the loop counter of the level loop
    result,         \* what solve returned: [ok, moves]
    valid,          \* the replay check of run_benchmark on the returned moves
    idmap,          \* the BTreeMap `map` of generate_graph, per cell offset
    args,           \* the arguments a bit-set or permutation call is made with
    iter,           \* an Iter over args.a, and the items it has yielded
    walk,           \* Random::solve: its board b and its solution vector
    bench           \* run_benchmark: its parallel runs and what they share

vars == <<board, call, ndrench, pc, g, colored_nodes, states, new_states,
          depth, result, valid, idmap, args, iter, walk, bench>>

boardVars == <<board, call, ndrench>>
solverVars == <<pc, g, colored_nodes, states, new_states, depth, result, valid>>
auxVars == <<idmap, args, iter, walk, bench>>

(***************************************************************************)
(* Program constants.                                                      *)
(***************************************************************************)
NumColors == 6
U8Modulus == 256
BlockBits == 64
NumBlocks == 4
CapSide == 16
MAX_MOVES == 1000

(***************************************************************************)
(* Bounds of the model.                                                    *)
(***************************************************************************)
MaxSize == 3
MaxPerm == 60
MaxDrench == 2
MaxDepth == 18
MaxSlope == 2
MaxSetSize == 3
MaxRuns == 2
MaxWalk == 3
MaxFree == 1
MaxSide == 5
MaxIndex == 40
MaxCycleSide == 27
MaxBenchRuns == 2

Colors == 0 .. (NumColors - 1)

\* What a panicking index operation yields instead of a cell offset.
Panic == 0 - 1

(***************************************************************************)
(* Board (board.rs).  A position is <<x, y>>; cell (x, y) is stored at     *)
(* offset y * size + x of cells, that is at cells[y * size + x + 1].       *)
(***************************************************************************)

\* impl Index<(u8, u8)> for Board: the offset of the cell the returned
\* reference points to, or Panic.  The guard is `x > size || y > size`;
\* the Vec's own bounds check panics for an offset past its end.
index(b, pos) ==
    IF pos[1] > b.size \/ pos[2] > b.size
    THEN Panic
    ELSE LET off == pos[2] * b.size + pos[1]
         IN IF off >= Len(b.cells) THEN Panic ELSE off

\* impl IndexMut<(u8, u8)> for Board: the same check and offset.
index_mut(b, pos) ==
    IF pos[1] > b.size \/ pos[2] > b.size
    THEN Panic
    ELSE LET off == pos[2] * b.size + pos[1]
         IN IF off >= Len(b.cells) THEN Panic ELSE off

\* self[(x, y)] read as a value.
cell(b, pos) == b.cells[index(b, pos) + 1]

\* self[(x, y)] = new.
store(b, pos, new) == [b EXCEPT !.cells[index_mut(b, pos) + 1] = new]

\* A variant of the pushes of field_coords that never looks below a cell.
neighbor_pushes_no_down(b, pos) ==
    LET x == pos[1]
        y == pos[2]
    IN  (IF x > 0 THEN << <<x - 1, y>> >> ELSE <<>>)
        \o (IF y > 0 THEN << <<x, y - 1>> >> ELSE <<>>)
        \o (IF x < b.size - 1 THEN << <<x + 1, y>> >> ELSE <<>>)

\* The four guarded pushes of the flood fills of board.rs, in source order:
\* left, up, right, down.
neighbor_pushes(b, pos) ==
    LET x == pos[1]
        y == pos[2]
    IN  (IF x > 0 THEN << <<x - 1, y>> >> ELSE <<>>)
        \o (IF y > 0 THEN << <<x, y - 1>> >> ELSE <<>>)
        \o (IF x < b.size - 1 THEN << <<x + 1, y>> >> ELSE <<>>)
        \o (IF y < b.size - 1 THEN << <<x, y + 1>> >> ELSE <<>>)

\* One pass of the while-let loop of Board::field_coords; st holds stack,
\* visited and border, and is left alone once the stack is empty.
field_coords_step(b, start_color, st) ==
    IF st.stack = <<>>
    THEN st
    ELSE LET pos == st.stack[Len(st.stack)]
             rest == SubSeq(st.stack, 1, Len(st.stack) - 1)
             not_visited == \A k \in 1 .. Len(st.visited) : st.visited[k] # pos
         IN  IF not_visited
             THEN IF cell(b, pos) = start_color
                  THEN [stack |-> rest \o neighbor_pushes(b, pos),
                        visited |-> Append(st.visited, pos),
                        border |-> st.border]
                  ELSE [stack |-> rest,
                        visited |-> st.visited,
                        border |-> Append(st.border, pos)]
             ELSE [st EXCEPT !.stack = rest]

\* The while-let loop of Board::field_coords: up to 2^k passes, until the
\* stack is empty.
RECURSIVE field_coords_loop(_, _, _, _)
field_coords_loop(b, start_color, st, k) ==
    IF k = 0
    THEN field_coords_step(b, start_color, st)
    ELSE LET half == field_coords_loop(b, start_color, st, k - 1)
         IN  IF half.stack = <<>>
             THEN half
             ELSE field_coords_loop(b, start_color, half, k - 1)

\* Board::field_coords: <<visited, border>>, both in the order pushed.  A
\* board of side up to 255 causes fewer than 2^18 pops.
field_coords(b) ==
    LET st == field_coords_loop(b, cell(b, <<0, 0>>),
                                [stack |-> << <<0, 0>> >>,
                                 visited |-> <<>>,
                                 border |-> <<>>], 18)
    IN  <<st.visited, st.border>>

\* A variant of the loop of drench that stops one coordinate early.
paint_all_but_last(b, coords, lo, hi, new) ==
    [b EXCEPT !.cells =
        [i \in 1 .. Len(b.cells) |->
            IF \E k \in lo .. (hi - 2) : index_mut(b, coords[k]) + 1 = i
            THEN new
            ELSE b.cells[i]]]

\* The for loop of Board::drench over the coordinates lo .. hi - 1 of the
\* region, one half after the other.
RECURSIVE paint(_, _, _, _, _)
paint(b, coords, lo, hi, new) ==
    IF hi <= lo THEN b
    ELSE IF hi = lo + 1
         THEN store(b, coords[lo], new)
         ELSE LET mid == (lo + hi) \div 2
                  first == paint(b, coords, lo, mid, new)
              IN  IF first.size >= 0
                  THEN paint(first, coords, mid, hi, new)
                  ELSE first

\* A variant of Board::drench that repaints cell (0, 0) only.
drench_first_cell(b, new) ==
    IF new # cell(b, <<0, 0>>)
    THEN store(b, <<0, 0>>, new)
    ELSE b

\* Board::drench (drencher/src/board.rs).
drench(b, new) ==
    IF new # cell(b, <<0, 0>>)
    THEN LET coords == field_coords(b)[1]
         IN  paint(b, coords, 1, Len(coords) + 1, new)
    ELSE b

\* The while-let loop of the first Board::drench (src/board.rs), which
\* repaints while it walks.
RECURSIVE drench_v0_loop(_, _, _, _)
drench_v0_loop(b, start_color, new, stack) ==
    IF stack = <<>>
    THEN b
    ELSE LET pos == stack[Len(stack)]
             rest == SubSeq(stack, 1, Len(stack) - 1)
         IN  IF cell(b, pos) = start_color
             THEN drench_v0_loop(store(b, pos, new), start_color, new,
                                 rest \o neighbor_pushes(b, pos))
             ELSE drench_v0_loop(b, start_color, new, rest)

\* Board::drench (src/board.rs).
drench_v0(b, new) ==
    IF new = cell(b, <<0, 0>>)
    THEN b
    ELSE drench_v0_loop(b, cell(b, <<0, 0>>), new, << <<0, 0>> >>)

\* Board::is_drenched.
is_drenched(b) ==
    \A i \in 1 .. Len(b.cells) : b.cells[i] = cell(b, <<0, 0>>)

\* The u64 argument n of Board::permutation is a sequence of NumLimbs
\* 16-bit limbs, lowest first.
LimbBase == 65536
NumLimbs == 4

\* The u64 of a number below 2^31.
U64(k) == <<k % LimbBase, k \div LimbBase, 0, 0>>

\* n / 6 and n % 6 of a u64: long division from limb i down, rem being the
\* remainder of the limbs above.
RECURSIVE div_rem(_, _, _)
div_rem(n, i, rem) ==
    IF i = 0 THEN [q |-> <<>>, r |-> rem]
    ELSE LET cur == rem * LimbBase + n[i]
             rest == div_rem(n, i - 1, cur % NumColors)
         IN  [q |-> Append(rest.q, cur \div NumColors), r |-> rest.r]

\* The for loop of Board::permutation: cell i gets n % 6, then n /= 6.
RECURSIVE permutation_cells(_, _)
permutation_cells(count, n) ==
    IF count = 0 THEN <<>>
    ELSE LET d == div_rem(n, NumLimbs, 0)
         IN  <<d.r>> \o permutation_cells(count - 1, d.q)

\* A variant of Board::permutation that writes the digits of n from the
\* last cell to the first.
permutation_high_first(size, n) ==
    [size |-> size,
     cells |-> [i \in 1 .. size * size |->
                  permutation_cells(size * size, n)[size * size + 1 - i]]]

\* Board::permutation.
permutation(size, n) ==
    [size |-> size, cells |-> permutation_cells(size * size, n)]

(***************************************************************************)
(* InlineBitSet (solver/exact.rs): data is [u64; 4].  A u64 block is       *)
(* represented by the set of the positions (0..63) of its 1 bits, so that  *)
(* & is intersection, | is union, ^ is symmetric difference, count_ones    *)
(* is the cardinality and 1 << k is {k}.  u8 sums wrap modulo 256.         *)
(***************************************************************************)
BitAnd(x, y) == x \cap y
BitOr(x, y) == x \cup y
BitXor(x, y) == (x \ y) \cup (y \ x)
count_ones(x) == Cardinality(x)
WrapU8(n) == n % U8Modulus

Blocks == 1 .. NumBlocks

\* InlineBitSet::empty.
empty == [i \in Blocks |-> {}]

\* InlineBitSet::insert.
insert(s, elem) ==
    [s EXCEPT ![elem \div BlockBits + 1] = BitOr(@, {elem % BlockBits})]

\* InlineBitSet::with_only_first.
with_only_first == insert(empty, 0)

\* The fold of the u8 block counts used by len and the two count functions.
RECURSIVE fold_counts(_, _, _)
fold_counts(counts, i, acc) ==
    IF i > Len(counts) THEN acc
    ELSE fold_counts(counts, i + 1, WrapU8(acc + WrapU8(counts[i])))

\* InlineBitSet::len.
set_len(s) == fold_counts([i \in Blocks |-> count_ones(s[i])], 1, 0)

\* InlineBitSet::is_empty.
is_empty(s) == \A i \in Blocks : s[i] = {}

\* A variant of contains that always looks into the first block.
contains_first_block(s, query) == (query % BlockBits) \in s[1]

\* InlineBitSet::contains: block & (1 << query % 64) != 0, that is bit
\* query % 64 of block query / 64 is set.
contains(s, query) ==
    (query % BlockBits) \in s[query \div BlockBits + 1]

\* A variant of is_subset_of that takes a common element for inclusion.
is_subset_of_overlap(s, other) ==
    \E i \in Blocks : BitAnd(s[i], other[i]) # {}

\* InlineBitSet::is_subset_of: this & other == this in every block.
is_subset_of(s, other) == \A i \in Blocks : BitAnd(s[i], other[i]) = s[i]

\* InlineBitSet::count_common_elements.
count_common_elements(a, b) ==
    fold_counts([i \in Blocks |-> count_ones(BitAnd(a[i], b[i]))], 1, 0)

\* InlineBitSet::count_elements_only_in_first: a ^ (b & b) in every block.
count_elements_only_in_first(a, b) ==
    fold_counts([i \in Blocks |-> count_ones(BitXor(a[i], BitAnd(b[i], b[i])))],
                1, 0)

\* InlineBitSet::union_with.
union_with(s, other) == [i \in Blocks |-> BitOr(s[i], other[i])]

\* InlineBitSet::intersect_with.
intersect_with(s, other) == [i \in Blocks |-> BitAnd(s[i], other[i])]

\* A variant of without that clears nothing.
without_nothing(s, other) == [i \in Blocks |-> BitOr(s[i], {})]

\* InlineBitSet::without: this ^= this & other.
without(s, other) == [i \in Blocks |-> BitXor(s[i], BitAnd(s[i], other[i]))]

\* InlineBitSet::union.
union(a, b) == union_with(a, b)

\* InlineBitSet::intersection.
intersection(a, b) == intersect_with(a, b)

\* IntoIterator for &InlineBitSet: a copy of the set and position 0.
into_iter(s) == [set |-> s, pos |-> 0]

\* The positions q of 0..255 that contains(s, q) holds for.
members(s) == UNION { { (i - 1) * BlockBits + k : k \in s[i] } : i \in Blocks }

\* The while loop of Iter::next, by its result: while pos <= 255 and pos is
\* not contained, pos += 1.  It stops at the first contained position at or
\* after pos, or at 256 when there is none.
iter_skip(s, pos) ==
    IF pos > U8Modulus - 1
    THEN pos
    ELSE LET later == { q \in members(s) : q >= pos /\ contains(s, WrapU8(q)) }
         IN  IF later = {}
             THEN U8Modulus
             ELSE CHOOSE q \in later : \A r \in later : q <= r

\* What Iter::next yields for None.
NoItem == 0 - 1

\* Iter::next: <<the iterator afterwards, the item or NoItem>>.
iter_next(it) ==
    LET p == iter_skip(it.set, it.pos)
    IN  IF p <= U8Modulus - 1
        THEN <<[it EXCEPT !.pos = p + 1], WrapU8((p + 1) - 1)>>
        ELSE <<[it EXCEPT !.pos = p], NoItem>>

\* A for loop over &set: the items next yields until None.
RECURSIVE iter_collect(_, _)
iter_collect(it, acc) ==
    LET r == iter_next(it)
    IN  IF r[2] = NoItem THEN acc ELSE iter_collect(r[1], Append(acc, r[2]))

items(s) == iter_collect(into_iter(s), <<>>)

\* A variant of the loop test of Iter::next that stops one position early.
iter_skip_step_short(it) ==
    IF it.pos < U8Modulus - 1 /\ ~contains(it.set, WrapU8(it.pos))
    THEN [it EXCEPT !.pos = @ + 1]
    ELSE it

\* One test of the condition of the while loop of Iter::next and, when it
\* holds, one run of its body: pos += 1.
iter_skip_step(it) ==
    IF it.pos <= U8Modulus - 1 /\ ~contains(it.set, WrapU8(it.pos))
    THEN [it EXCEPT !.pos = @ + 1]
    ELSE it

\* The while loop of Iter::next run for up to 2^k tests of its condition
\* (the recursion is split in halves to keep it shallow).
RECURSIVE iter_skip_loop(_, _)
iter_skip_loop(it, k) ==
    IF k = 0
    THEN iter_skip_step(it)
    ELSE LET half == iter_skip_loop(it, k - 1)
         IN  \* the test only makes TLC evaluate the first half first
             IF half.pos >= 0 THEN iter_skip_loop(half, k - 1) ELSE half

\* Iter::next with its loop run position by position (at most 257 tests,
\* fewer than 2^9): <<the iterator afterwards, the item or NoItem>>.
iter_next_stepwise(it) ==
    LET after == iter_skip_loop(it, 9)
    IN  IF after.pos \in 0 .. (U8Modulus - 1)
        THEN <<[after EXCEPT !.pos = @ + 1], WrapU8((after.pos + 1) - 1)>>
        ELSE <<after, NoItem>>

(***************************************************************************)
(* ColorSet and CellMap (util/mod.rs).  The u8 of a ColorSet is the set of *)
(* its 1 bits, as for the blocks above.                                    *)
(***************************************************************************)

\* ColorSet::new and ColorSet::clear.
colorset_new == {}

\* ColorSet::set.
colorset_set(cs, c) == BitOr(cs, {c})

\* ColorSet::is_set.
colorset_is_set(cs, c) == BitAnd(cs, {c}) # {}

\* ColorSetIter::next, repeated: the set colours in ascending order.
RECURSIVE colorset_items(_, _)
colorset_items(cs, pos) ==
    IF pos >= NumColors THEN <<>>
    ELSE IF colorset_is_set(cs, pos)
         THEN <<pos>> \o colorset_items(cs, pos + 1)
         ELSE colorset_items(cs, pos + 1)

\* CellMap::new.
cellmap_new(size, obj) ==
    [size |-> size, cells |-> [i \in 1 .. size * size |-> obj]]

\* impl Index / IndexMut for CellMap: as for Board.
cellmap_index(m, pos) ==
    IF pos[1] > m.size \/ pos[2] > m.size
    THEN Panic
    ELSE LET off == pos[2] * m.size + pos[1]
         IN IF off >= Len(m.cells) THEN Panic ELSE off

cellmap_get(m, pos) == m.cells[cellmap_index(m, pos) + 1]
cellmap_put(m, pos, obj) == [m EXCEPT !.cells[cellmap_index(m, pos) + 1] = obj]

(***************************************************************************)
(* The island graph (solver/exact.rs).                                     *)
(***************************************************************************)

\* Graph::len: nodes.len() as u8.
graph_len(gr) == WrapU8(Len(gr.nodes))

\* impl Index<GraphIndex> for Graph.
node(gr, idx) == gr.nodes[idx + 1]

\* The macro add_neighbor!(pos, cond) of get_island on st = [to_visit, visited].
add_neighbor(st, pos, cond) ==
    IF cond /\ ~cellmap_get(st.visited, pos)
    THEN [to_visit |-> Append(st.to_visit, pos),
          visited |-> cellmap_put(st.visited, pos, TRUE)]
    ELSE st

\* The while-let loop of get_island.
RECURSIVE get_island_loop(_, _, _, _, _)
get_island_loop(b, init_color, st, island, adjacent) ==
    IF st.to_visit = <<>>
    THEN <<island, adjacent>>
    ELSE LET pos == st.to_visit[Len(st.to_visit)]
             x == pos[1]
             y == pos[2]
             size == b.size
             st0 == [st EXCEPT !.to_visit = SubSeq(@, 1, Len(@) - 1)]
             st1 == add_neighbor(st0, <<x - 1, y>>, x > 0)
             st2 == add_neighbor(st1, <<x + 1, y>>, x < size - 1)
             st3 == add_neighbor(st2, <<x, y - 1>>, y > 0)
             st4 == add_neighbor(st3, <<x, y + 1>>, y < size - 1)
         IN  IF cell(b, pos) = init_color
             THEN get_island_loop(b, init_color, st4, Append(island, pos),
                                  adjacent)
             ELSE get_island_loop(b, init_color, st0, island,
                                  Append(adjacent, pos))

\* get_island: <<island, adjacent>>.
get_island(b, pos) ==
    get_island_loop(b, cell(b, pos),
                    [to_visit |-> <<pos>>,
                     visited |-> cellmap_put(cellmap_new(b.size, FALSE), pos, TRUE)],
                    <<>>, <<>>)

\* A cell the BTreeMap of generate_graph has no key for.
NoNode == 0 - 1

\* generate_graph: `for pos in island { map.insert(pos, new_id) }`.  The map
\* is kept per cell offset, NoNode where it has no key.
RECURSIVE mark_island(_, _, _, _, _)
mark_island(b, map, island, i, new_id) ==
    IF i > Len(island) THEN map
    ELSE mark_island(b, [map EXCEPT ![index(b, island[i]) + 1] = new_id],
                     island, i + 1, new_id)

\* generate_graph: the edge loop `for pos in adjacent`.
RECURSIVE add_edges(_, _, _, _, _, _)
add_edges(b, map, nodes, adjacent, i, new_id) ==
    IF i > Len(adjacent) THEN nodes
    ELSE LET id == map[index(b, adjacent[i]) + 1]
         IN  IF id # NoNode
             THEN LET n1 == [nodes EXCEPT ![id + 1].adjacent = insert(@, new_id)]
                      n2 == [n1 EXCEPT ![new_id + 1].adjacent = insert(@, id)]
                  IN  add_edges(b, map, n2, adjacent, i + 1, new_id)
             ELSE add_edges(b, map, nodes, adjacent, i + 1, new_id)

\* generate_graph: the body of the loops over x (outer) and y (inner) for
\* the k-th cell of the scan, k = x * size + y, on acc = [map, nodes].
generate_graph_body(b, k, acc) ==
    LET pos == <<k \div b.size, k % b.size>>
    IN  IF acc.map[index(b, pos) + 1] # NoNode
        THEN acc
        ELSE LET isl == get_island(b, pos)
                 new_id == graph_len([nodes |-> acc.nodes])
                 pushed == Append(acc.nodes, [adjacent |-> empty,
                                              color |-> cell(b, pos)])
                 map1 == mark_island(b, acc.map, isl[1], 1, new_id)
             IN  [map |-> map1,
                  nodes |-> add_edges(b, map1, pushed, isl[2], 1, new_id)]

\* The scan of the cells lo .. hi - 1 in order (the recursion is split in
\* halves to keep it shallow on a board of 16 x 16 cells).
RECURSIVE generate_graph_scan(_, _, _, _)
generate_graph_scan(b, lo, hi, acc) ==
    IF hi <= lo THEN acc
    ELSE IF hi = lo + 1
         THEN generate_graph_body(b, lo, acc)
         ELSE LET mid == (lo + hi) \div 2
                  first == generate_graph_scan(b, lo, mid, acc)
              IN  \* the test only makes TLC evaluate the first half first
                  IF Len(first.nodes) >= 0
                  THEN generate_graph_scan(b, mid, hi, first)
                  ELSE first

\* generate_graph up to its last line: the map and the nodes after the scan.
generate_graph_run(b) ==
    generate_graph_scan(b, 0, b.size * b.size,
                        [map |-> [i \in 1 .. b.size * b.size |-> NoNode],
                         nodes |-> <<>>])

\* generate_graph.
generate_graph(b) == [nodes |-> generate_graph_run(b).nodes]

(***************************************************************************)
(* Exact::solve (solver/exact.rs).                                         *)
(***************************************************************************)

\* The loop `for node_id in 0..g.len()` that fills colored_nodes.
RECURSIVE colored_nodes_loop(_, _, _)
colored_nodes_loop(gr, node_id, out) ==
    IF node_id >= graph_len(gr) THEN out
    ELSE colored_nodes_loop(gr, node_id + 1,
             [out EXCEPT ![node(gr, node_id).color + 1] = insert(@, node_id)])

\* A variant of the colour sets that leaves out the last node.
colored_nodes_of_but_last(gr) ==
    colored_nodes_loop([nodes |-> SubSeq(gr.nodes, 1, Len(gr.nodes) - 1)], 0,
                       [c \in 1 .. NumColors |-> empty])

\* let colored_nodes = { ... }: one set per colour.
colored_nodes_of(gr) ==
    colored_nodes_loop(gr, 0, [c \in 1 .. NumColors |-> empty])

\* A variant of the initial level whose state starts with the colour of
\* node 0 as a move.
initial_states_with_move(gr) ==
    << [moves |-> <<node(gr, 0).color>>,
        adjacent |-> node(gr, 0).adjacent,
        owned |-> with_only_first] >>

\* The initial level: one state owning node 0.
initial_states(gr) ==
    << [moves |-> <<>>,
        adjacent |-> node(gr, 0).adjacent,
        owned |-> with_only_first] >>

\* The key of states.sort_by_key: g.len() - state.owned.len(), in u8.  The
\* closure runs only when the level holds two states or more.
sort_key(gr, state) == WrapU8(graph_len(gr) - set_len(state.owned))

\* Insert one state into a sequence sorted by key, after the states whose
\* key is not greater (the sort is stable).
RECURSIVE sorted_insert(_, _, _, _)
sorted_insert(gr, sorted, state, i) ==
    IF i > Len(sorted) \/ sort_key(gr, sorted[i]) > sort_key(gr, state)
    THEN SubSeq(sorted, 1, i - 1) \o <<state>> \o SubSeq(sorted, i, Len(sorted))
    ELSE sorted_insert(gr, sorted, state, i + 1)

RECURSIVE sort_loop(_, _, _, _)
sort_loop(gr, sts, i, sorted) ==
    IF i > Len(sts) THEN sorted
    ELSE sort_loop(gr, sts, i + 1, sorted_insert(gr, sorted, sts[i], 1))

\* states.sort_by_key(|state| g.len() - state.owned.len()).
sort_by_key(gr, sts) == sort_loop(gr, sts, 1, <<>>)

\* Vec::swap on 0-based indices.
swap(sts, i, j) ==
    [sts EXCEPT ![i + 1] = sts[j + 1], ![j + 1] = sts[i + 1]]

\* A variant of the partition loop that tests a state against the kept
\* state before it only.
RECURSIVE partition_loop_last_kept(_, _, _)
partition_loop_last_kept(sts, i, j) ==
    IF i >= Len(sts)
    THEN SubSeq(sts, 1, j)
    ELSE IF \A a \in { a \in 0 .. (j - 1) : a = j - 1 } :
                ~is_subset_of(sts[i + 1].owned, sts[a + 1].owned)
         THEN partition_loop_last_kept(swap(sts, i, j), i + 1, j + 1)
         ELSE partition_loop_last_kept(sts, i + 1, j)

\* The partition loop `for i in 0..states.len()` and the truncate(j).
RECURSIVE partition_loop(_, _, _)
partition_loop(sts, i, j) ==
    IF i >= Len(sts)
    THEN SubSeq(sts, 1, j)
    ELSE IF \A a \in 0 .. (j - 1) :
                ~is_subset_of(sts[i + 1].owned, sts[a + 1].owned)
         THEN partition_loop(swap(sts, i, j), i + 1, j + 1)
         ELSE partition_loop(sts, i + 1, j)

\* A variant of the pruning step that keeps the first state of the sorted
\* level only.
prune_keep_first(gr, sts) == SubSeq(sort_by_key(gr, sts), 1, 1)

\* The pruning step of a level: sort, partition, truncate.
prune(gr, sts) == partition_loop(sort_by_key(gr, sts), 0, 0)

\* The loop `for color in 0..6` that selects the candidate colours of a state.
RECURSIVE adj_colors_loop(_, _, _, _)
adj_colors_loop(cn, state, color, adj_colors) ==
    IF color >= NumColors
    THEN adj_colors
    ELSE LET num_adj == count_common_elements(state.adjacent, cn[color + 1])
             num_remaining ==
                 count_elements_only_in_first(cn[color + 1], state.owned)
         IN  IF num_adj = num_remaining /\ num_adj > 0
             THEN colorset_set(colorset_new, color)
             ELSE IF num_adj > 0
                  THEN adj_colors_loop(cn, state, color + 1,
                                       colorset_set(adj_colors, color))
                  ELSE adj_colors_loop(cn, state, color + 1, adj_colors)

\* A variant of the candidate selection that takes every colour of which
\* the state does not own every node.
adj_colors_of_remaining(cn, state) ==
    LET RECURSIVE take(_, _)
        take(color, acc) ==
            IF color >= NumColors THEN acc
            ELSE IF ~is_subset_of(cn[color + 1], state.owned)
                 THEN take(color + 1, colorset_set(acc, color))
                 ELSE take(color + 1, acc)
    IN  take(0, colorset_new)

adj_colors_of(cn, state) == adj_colors_loop(cn, state, 0, colorset_new)

\* A variant of the widening loop that leaves out the neighbours of the
\* last newly owned node.
RECURSIVE neighbors_loop_but_last(_, _, _, _)
neighbors_loop_but_last(gr, ids, i, new_adj) ==
    IF i >= Len(ids) THEN new_adj
    ELSE neighbors_loop_but_last(gr, ids, i + 1,
                                 union_with(new_adj, node(gr, ids[i]).adjacent))

\* The loop `for neighbor_id in &colored_adj` that widens new_adj.
RECURSIVE neighbors_loop(_, _, _, _)
neighbors_loop(gr, ids, i, new_adj) ==
    IF i > Len(ids) THEN new_adj
    ELSE neighbors_loop(gr, ids, i + 1,
                        union_with(new_adj, node(gr, ids[i]).adjacent))

\* A variant of the child that owns one node more than its parent, the
\* first of the frontier nodes of the colour.
child_one_node(gr, cn, state, color) ==
    LET colored_adj == intersection(state.adjacent, cn[color + 1])
        first_adj == insert(empty, items(colored_adj)[1])
        new_owned == union(state.owned, first_adj)
        widened == neighbors_loop(gr, items(first_adj), 1, state.adjacent)
        new_adj == without(widened, new_owned)
    IN  [moves |-> Append(state.moves, color),
         adjacent |-> new_adj,
         owned |-> new_owned]

\* The child of a state for one candidate colour.
child(gr, cn, state, color) ==
    LET colored_adj == intersection(state.adjacent, cn[color + 1])
        new_owned == union(state.owned, colored_adj)
        widened == neighbors_loop(gr, items(colored_adj), 1, state.adjacent)
        new_adj == without(widened, new_owned)
    IN  [moves |-> Append(state.moves, color),
         adjacent |-> new_adj,
         owned |-> new_owned]

\* A variant of the loop over the candidate colours that pushes every
\* child and never returns.
RECURSIVE children_loop_push_all(_, _, _, _, _, _)
children_loop_push_all(gr, cn, state, colors, k, out) ==
    IF k > Len(colors)
    THEN [found |-> FALSE, moves |-> <<>>, new_states |-> out]
    ELSE children_loop_push_all(gr, cn, state, colors, k + 1,
                                Append(out, child(gr, cn, state, colors[k])))

\* The loop `for color in &adj_colors` of one state: stops at the first child
\* with an empty frontier, which solve returns.
RECURSIVE children_loop(_, _, _, _, _, _)
children_loop(gr, cn, state, colors, k, out) ==
    IF k > Len(colors)
    THEN [found |-> FALSE, moves |-> <<>>, new_states |-> out]
    ELSE LET ch == child(gr, cn, state, colors[k])
         IN  IF is_empty(ch.adjacent)
             THEN [found |-> TRUE, moves |-> ch.moves, new_states |-> out]
             ELSE children_loop(gr, cn, state, colors, k + 1, Append(out, ch))

\* The loop `for state in &states` of one level.
RECURSIVE expand_loop(_, _, _, _, _)
expand_loop(gr, cn, sts, i, out) ==
    IF i > Len(sts)
    THEN [found |-> FALSE, moves |-> <<>>, new_states |-> out]
    ELSE LET r == children_loop(gr, cn, sts[i],
                                colorset_items(adj_colors_of(cn, sts[i]), 0),
                                1, out)
         IN  IF r.found THEN r
             ELSE expand_loop(gr, cn, sts, i + 1, r.new_states)

\* The expansion of a pruned level.
expand(gr, cn, sts) == expand_loop(gr, cn, sts, 1, <<>>)

\* bench.rs: the replay `for &c in &run.moves { board.drench(c) }`.
RECURSIVE replay(_, _, _)
replay(b, moves, i) ==
    IF i > Len(moves) THEN b
    ELSE replay(drench(b, moves[i]), moves, i + 1)

(***************************************************************************)
(* The boards the specifications start from.                               *)
(***************************************************************************)

\* The coordinates of the i-th cell of the row-by-row cell vector.
CellX(size, i) == (i - 1) % size
CellY(size, i) == (i - 1) \div size

\* Permutation boards at scattered indices (all boards of side 2 are hit
\* once MaxPerm reaches 6^4, the stride being coprime to 6).
PermBoards ==
    { permutation(s, U64(k * 7919)) : s \in 1 .. MaxSize, k \in 0 .. (MaxPerm - 1) }

\* The same boards folded onto palettes of two and three colours, where
\* regions of several cells and several regions of one colour are common.
PaletteBoards ==
    { [size |-> p.size, cells |-> [i \in 1 .. Len(p.cells) |-> p.cells[i] % m]] :
        p \in PermBoards, m \in {2, 3} }

\* Checkerboards [[A, B], [B, A]], uniform when A = B.
CheckerBoards ==
    { [size |-> s,
       cells |-> [i \in 1 .. s * s |->
                     IF (CellX(s, i) + CellY(s, i)) % 2 = 0 THEN a ELSE c]] :
        s \in 1 .. MaxSize, a \in Colors, c \in Colors }

SmallBoards == PermBoards \cup PaletteBoards \cup CheckerBoards

\* The board of side s whose cell (x, y) has colour (a x + b y + c) % 6:
\* uniform for a = b = 0, stripes when one slope is 0, and otherwise no two
\* 4-adjacent cells of one colour, so one region per cell.
AffineBoard(s, a, b, c) ==
    [size |-> s,
     cells |-> [i \in 1 .. s * s |->
                   (a * CellX(s, i) + b * CellY(s, i) + c) % NumColors]]

\* Boards of side 16: uniform, or one region per cell (256 regions); and
\* two-colour checkerboards of side 17 (289 regions).
CapBoards ==
    { AffineBoard(CapSide, 0, 0, c) : c \in Colors }
    \cup
    { AffineBoard(CapSide, a, b, c) :
        a \in 1 .. MaxSlope, b \in 1 .. MaxSlope, c \in Colors }
    \cup
    { AffineBoard(CapSide + 1, 3, 3, c) : c \in Colors }

NoCall ==
    [op |-> "none", pos |-> <<0, 0>>, color |-> 0, ret |-> 0,
     region |-> <<>>, border |-> <<>>, before |-> <<>>]

NoGraph == [nodes |-> <<>>]
NoResult == [ok |-> FALSE, moves |-> <<>>]
NoArgs == [a |-> <<>>, b |-> <<>>, sa |-> {}, sb |-> {}]
NoIter == [it |-> <<>>, out |-> <<>>, runs |-> <<>>]
NoWalk == [b |-> <<>>, solution |-> <<>>]
NoBench == [main |-> "idle"]

AuxIdle ==
    /\ idmap = <<>>
    /\ args = NoArgs
    /\ iter = NoIter
    /\ walk = NoWalk
    /\ bench = NoBench

SolverIdle ==
    /\ pc = "start"
    /\ g = NoGraph
    /\ colored_nodes = <<>>
    /\ states = <<>>
    /\ new_states = <<>>
    /\ depth = 0
    /\ result = NoResult
    /\ valid = FALSE

(***************************************************************************)
(* SpecBoard: the Board operations, called on a board a caller holds.      *)
(***************************************************************************)

InitBoard ==
    /\ board \in SmallBoards
    /\ call = NoCall
    /\ ndrench = 0
    /\ SolverIdle
    /\ AuxIdle

\* board.drench(c), as the solvers and the replay call it.
Drench(c) ==
    /\ call.op \in {"none", "drench", "drench_v0"}
    /\ ndrench < MaxDrench
    /\ board' = drench(board, c)
    /\ call' = [NoCall EXCEPT !.op = "drench", !.color = c, !.before = board]
    /\ ndrench' = ndrench + 1
    /\ UNCHANGED <<solverVars, auxVars>>

\* board.drench(c) of the first version of the board.
DrenchV0(c) ==
    /\ call.op \in {"none", "drench", "drench_v0"}
    /\ ndrench < MaxDrench
    /\ board' = drench_v0(board, c)
    /\ call' = [NoCall EXCEPT !.op = "drench_v0", !.color = c, !.before = board]
    /\ ndrench' = ndrench + 1
    /\ UNCHANGED <<solverVars, auxVars>>

\* board.field_coords(), on the board as constructed or after a drench.
FieldCoords ==
    /\ call.op \in {"none", "drench", "drench_v0"}
    /\ LET fc == field_coords(board)
       IN  call' = [NoCall EXCEPT !.op = "field_coords", !.region = fc[1],
                                  !.border = fc[2], !.before = board]
    /\ UNCHANGED <<board, ndrench>>
    /\ UNCHANGED <<solverVars, auxVars>>

\* &board[(x, y)] on the board as constructed, for coordinates up to one
\* past the side.
IndexRead(pos) ==
    /\ call.op = "none"
    /\ call' = [NoCall EXCEPT !.op = "index", !.pos = pos,
                              !.ret = index(board, pos), !.before = board]
    /\ UNCHANGED <<board, ndrench>>
    /\ UNCHANGED <<solverVars, auxVars>>

\* &mut board[(x, y)], likewise.
IndexWrite(pos) ==
    /\ call.op = "none"
    /\ call' = [NoCall EXCEPT !.op = "index_mut", !.pos = pos,
                              !.ret = index_mut(board, pos), !.before = board]
    /\ UNCHANGED <<board, ndrench>>
    /\ UNCHANGED <<solverVars, auxVars>>

ProbeCoords == 0 .. (board.size + 1)

NextBoard ==
    \/ \E c \in Colors : Drench(c)
    \/ \E c \in Colors : DrenchV0(c)
    \/ FieldCoords
    \/ \E x \in ProbeCoords, y \in ProbeCoords : IndexRead(<<x, y>>)
    \/ \E x \in ProbeCoords, y \in ProbeCoords : IndexWrite(<<x, y>>)

SpecBoard == InitBoard /\ [][NextBoard]_vars

(***************************************************************************)
(* Spec: Exact::solve on a small board, then the check of run_benchmark.   *)
(***************************************************************************)

\* solve from the call of generate_graph to the initial level.  The build
\* decides whether u8 overflow is checked: with the checks on,
\* b.size().pow(2) in generate_graph panics once size * size passes 255;
\* with the checks off it wraps and only sizes a reservation.
SolveBuild ==
    \E overflow_checks \in
            (IF board.size * board.size >= U8Modulus THEN BOOLEAN ELSE {FALSE}) :
        IF overflow_checks
        THEN /\ pc' = "panic"
             /\ UNCHANGED <<g, colored_nodes, states, new_states, depth, result>>
        ELSE LET gr == generate_graph(board)
             IN  /\ g' = gr
                 /\ colored_nodes' = colored_nodes_of(gr)
                 /\ states' = initial_states(gr)
                 /\ new_states' = <<>>
                 /\ depth' = 0
                 /\ pc' = "prune"
                 /\ UNCHANGED result

\* A variant of the start of solve without the test for a uniform board.
SolveBeginNoShortcut ==
    /\ pc = "start"
    /\ SolveBuild
    /\ UNCHANGED valid
    /\ UNCHANGED <<boardVars, auxVars>>

\* Entry of solve: the uniform board returns at once; otherwise the graph,
\* the colour sets and the initial level are built.
SolveBegin ==
    /\ pc = "start"
    /\ IF is_drenched(board)
       THEN /\ result' = [ok |-> TRUE, moves |-> <<>>]
            /\ pc' = "done"
            /\ UNCHANGED <<g, colored_nodes, states, new_states, depth>>
       ELSE SolveBuild
    /\ UNCHANGED valid
    /\ UNCHANGED <<boardVars, auxVars>>

\* Head of a loop iteration: new_states.clear() and the pruning step.
Prune ==
    /\ pc = "prune"
    /\ depth <= MaxDepth
    /\ states' = prune(g, states)
    /\ new_states' = <<>>
    /\ pc' = "expand"
    /\ UNCHANGED <<g, colored_nodes, depth, result, valid>>
    /\ UNCHANGED <<boardVars, auxVars>>

\* Rest of the iteration: the children of every kept state; solve returns
\* the first child with an empty frontier, else the vectors are swapped.
Expand ==
    /\ pc = "expand"
    /\ LET r == expand(g, colored_nodes, states)
       IN  IF r.found
           THEN /\ result' = [ok |-> TRUE, moves |-> r.moves]
                /\ new_states' = r.new_states
                /\ pc' = "done"
                /\ UNCHANGED <<states, depth>>
           ELSE /\ states' = r.new_states
                /\ new_states' = states
                /\ depth' = depth + 1
                /\ pc' = "prune"
                /\ UNCHANGED result
    /\ UNCHANGED <<g, colored_nodes, valid>>
    /\ UNCHANGED <<boardVars, auxVars>>

\* run_benchmark: replay the moves on a clone of the board and keep the run
\* only if the board ends drenched.
Verify ==
    /\ pc = "done"
    /\ result.ok
    /\ valid' = is_drenched(replay(board, result.moves, 1))
    /\ pc' = "verified"
    /\ UNCHANGED <<g, colored_nodes, states, new_states, depth, result>>
    /\ UNCHANGED <<boardVars, auxVars>>

Init == InitBoard

Next ==
    \/ SolveBegin
    \/ Prune
    \/ Expand
    \/ Verify

Spec == Init /\ [][Next]_vars

(***************************************************************************)
(* SpecCap: Exact::solve on boards of side 16 and 17.                      *)
(***************************************************************************)

InitCap ==
    /\ board \in CapBoards
    /\ call = NoCall
    /\ ndrench = 0
    /\ SolverIdle
    /\ AuxIdle

NextCap ==
    \/ SolveBegin
    \/ Prune
    \/ Expand

SpecCap == InitCap /\ [][NextCap]_vars

(***************************************************************************)
(* SpecGraph: generate_graph called on a board, uniform boards included.   *)
(***************************************************************************)

\* Boards of the small sides and the boards of side 16 and 17 that are not
\* uniform.
GraphBoards == SmallBoards \cup { b \in CapBoards : ~is_drenched(b) }

InitGraph ==
    /\ board \in GraphBoards
    /\ call = NoCall
    /\ ndrench = 0
    /\ SolverIdle
    /\ AuxIdle

\* generate_graph(&b).  As in SolveBuild, b.size().pow(2) panics in a build
\* with overflow checks once size * size passes 255.
GenerateGraph ==
    /\ pc = "start"
    /\ \E overflow_checks \in
            (IF board.size * board.size >= U8Modulus THEN BOOLEAN ELSE {FALSE}) :
          IF overflow_checks
          THEN /\ pc' = "panic"
               /\ UNCHANGED <<g, idmap>>
          ELSE LET run == generate_graph_run(board)
               IN  /\ g' = [nodes |-> run.nodes]
                   /\ idmap' = run.map
                   /\ pc' = "graph"
    /\ UNCHANGED <<colored_nodes, states, new_states, depth, result, valid>>
    /\ UNCHANGED <<boardVars, args, iter, walk, bench>>

NextGraph == GenerateGraph

SpecGraph == InitGraph /\ [][NextGraph]_vars

(***************************************************************************)
(* SpecSet: the InlineBitSet operations called on two sets, and an Iter    *)
(* driven over the first of them.                                          *)
(***************************************************************************)

\* The InlineBitSet that holds the elements of S: element e is bit e % 64
\* of block e / 64.
BitSetOf(S) ==
    [i \in Blocks |->
        { e - (i - 1) * BlockBits : e \in { x \in S : x \div BlockBits = i - 1 } }]

\* Elements at the ends of the range and of the blocks, the sets of up to
\* MaxSetSize of them, and the full set.
ElemPool == {0, 63, 64, 130, 255}
ProbeElems == ElemPool \cup {1, 192}
TestSets ==
    { S \in SUBSET ElemPool : Cardinality(S) <= MaxSetSize }
    \cup { 0 .. (U8Modulus - 1) }

InitSet ==
    /\ board \in { permutation(1, U64(0)) }
    /\ call = NoCall
    /\ ndrench = 0
    /\ SolverIdle
    /\ idmap = <<>>
    /\ bench = NoBench
    /\ \E A \in TestSets, B \in TestSets :
          args = [a |-> BitSetOf(A), b |-> BitSetOf(B), sa |-> A, sb |-> B]
    /\ iter = NoIter
    /\ walk = NoWalk

\* One call f(&a, &b) of a function of two sets; ret is what it returns.
SetCall(op, ret) ==
    /\ call.op = "none"
    /\ iter = NoIter
    /\ call' = [NoCall EXCEPT !.op = op, !.ret = ret]
    /\ UNCHANGED <<board, ndrench, idmap, args, iter, walk, bench>>
    /\ UNCHANGED solverVars

\* One call a.f(e) with an element; ret is what it returns or leaves in a.
ElemCall(op, e, ret) ==
    /\ call.op = "none"
    /\ iter = NoIter
    /\ call' = [NoCall EXCEPT !.op = op, !.color = e, !.ret = ret]
    /\ UNCHANGED <<board, ndrench, idmap, args, iter, walk, bench>>
    /\ UNCHANGED solverVars

Union == SetCall("union", union(args.a, args.b))
Intersection == SetCall("intersection", intersection(args.a, args.b))
Without == SetCall("without", without(args.a, args.b))
IsSubsetOf == SetCall("is_subset_of", is_subset_of(args.a, args.b))
CountCommon ==
    SetCall("count_common_elements", count_common_elements(args.a, args.b))
CountOnlyInFirst ==
    SetCall("count_elements_only_in_first",
            count_elements_only_in_first(args.a, args.b))
Contains(e) == ElemCall("contains", e, contains(args.a, e))
Insert(e) == ElemCall("insert", e, insert(args.a, e))

\* (&a).into_iter(): the first time, and again after an iteration ended.
\* The second set plays no part, so one value of it is enough.
IterStart ==
    /\ call.op = "none"
    /\ args.b = args.a
    /\ iter.it = <<>>
    /\ Len(iter.runs) < MaxRuns
    /\ iter' = [iter EXCEPT !.it = into_iter(args.a), !.out = <<>>]
    /\ UNCHANGED <<board, call, ndrench, idmap, args, walk, bench>>
    /\ UNCHANGED solverVars

\* One call of Iter::next: an item is appended to out; on None the
\* iteration is over and the iterator is dropped.
IterNext ==
    /\ iter.it # <<>>
    /\ LET r == iter_next_stepwise(iter.it)
       IN  IF r[2] # NoItem
           THEN iter' = [iter EXCEPT !.it = r[1], !.out = Append(@, r[2])]
           ELSE iter' = [it |-> <<>>, out |-> <<>>,
                         runs |-> Append(iter.runs, iter.out)]
    /\ UNCHANGED <<board, call, ndrench, idmap, args, walk, bench>>
    /\ UNCHANGED solverVars

NextSet ==
    \/ Union
    \/ Intersection
    \/ Without
    \/ IsSubsetOf
    \/ CountCommon
    \/ CountOnlyInFirst
    \/ \E e \in ProbeElems : Contains(e)
    \/ \E e \in ProbeElems : Insert(e)
    \/ IterStart
    \/ IterNext

SpecSet == InitSet /\ [][NextSet]_vars

(***************************************************************************)
(* SpecRandom: Random::solve (solver/random.rs).  The generator is an      *)
(* input: its first MaxFree and its last MaxFree possible draws are any     *)
(* colour, and every draw between them repeats the draw before it.         *)
(***************************************************************************)

\* Boards of side 1 and 2: uniform ones, and ones that take one, two and
\* three moves.
WalkBoards ==
    { permutation(s, U64(k * 37)) : s \in 1 .. 2, k \in 0 .. (MaxWalk - 1) }
    \cup { permutation(s, U64(k * 41)) : s \in 1 .. 2, k \in 0 .. (MaxWalk - 1) }

InitRandom ==
    /\ board \in WalkBoards
    /\ call = NoCall
    /\ ndrench = 0
    /\ SolverIdle
    /\ AuxIdle

\* Entry of Random::solve: b is the board passed in, solution is empty.
RandomEnter ==
    /\ pc = "start"
    /\ walk' = [b |-> board, solution |-> <<>>]
    /\ pc' = "walk"
    /\ UNCHANGED <<g, colored_nodes, states, new_states, depth, result, valid>>
    /\ UNCHANGED <<boardVars, idmap, args, iter, bench>>

\* What range.ind_sample(&mut rng) may return for the draw after n draws.
Draws(n) ==
    IF n < MaxFree \/ n >= MAX_MOVES - MaxFree
    THEN Colors
    ELSE {walk.solution[n]}

\* One pass of the while loop: a colour is drawn, pushed and drenched.
RandomStep ==
    /\ pc = "walk"
    /\ ~is_drenched(walk.b) /\ Len(walk.solution) < MAX_MOVES
    /\ \E color \in Draws(Len(walk.solution)) :
          walk' = [b |-> drench(walk.b, color),
                   solution |-> Append(walk.solution, color)]
    /\ UNCHANGED solverVars
    /\ UNCHANGED <<boardVars, idmap, args, iter, bench>>

\* A variant of the return of Random::solve that decides by the number of
\* moves.
RandomReturnByLength ==
    /\ pc = "walk"
    /\ ~(~is_drenched(walk.b) /\ Len(walk.solution) < MAX_MOVES)
    /\ result' = [ok |-> Len(walk.solution) < MAX_MOVES,
                  moves |-> walk.solution]
    /\ pc' = "done"
    /\ UNCHANGED <<g, colored_nodes, states, new_states, depth, valid>>
    /\ UNCHANGED <<boardVars, auxVars>>

\* The loop is left: Ok(solution) if b is drenched, else Err(solution).
RandomReturn ==
    /\ pc = "walk"
    /\ ~(~is_drenched(walk.b) /\ Len(walk.solution) < MAX_MOVES)
    /\ result' = [ok |-> is_drenched(walk.b), moves |-> walk.solution]
    /\ pc' = "done"
    /\ UNCHANGED <<g, colored_nodes, states, new_states, depth, valid>>
    /\ UNCHANGED <<boardVars, auxVars>>

NextRandom ==
    \/ RandomEnter
    \/ RandomStep
    \/ RandomReturn

SpecRandom == InitRandom /\ [][NextRandom]_vars

\* Natural numbers of NumLimbs + 2 limbs, wide enough for the index of any
\* board of side up to 6.
WideZero == [i \in 1 .. NumLimbs + 2 |-> 0]
Wide(n) == n \o <<0, 0>>
Narrow(w) == SubSeq(w, 1, NumLimbs)
FitsU64(w) == \A i \in (NumLimbs + 1) .. Len(w) : w[i] = 0
TwoTo64 == [i \in 1 .. NumLimbs + 2 |-> IF i = NumLimbs + 1 THEN 1 ELSE 0]

\* w * m + carry, from limb i on.
RECURSIVE MulAddFrom(_, _, _, _)
MulAddFrom(w, m, i, carry) ==
    IF i > Len(w) THEN <<>>
    ELSE LET cur == w[i] * m + carry
         IN  <<cur % LimbBase>> \o MulAddFrom(w, m, i + 1, cur \div LimbBase)

RECURSIVE WideLessFrom(_, _, _)
WideLessFrom(a, b, i) ==
    IF i = 0 THEN FALSE
    ELSE IF a[i] # b[i] THEN a[i] < b[i]
         ELSE WideLessFrom(a, b, i - 1)

WideLess(a, b) == WideLessFrom(a, b, Len(a))

\* 6^k.
RECURSIVE SixTo(_)
SixTo(k) ==
    IF k = 0 THEN MulAddFrom(WideZero, NumColors, 1, 1)
    ELSE MulAddFrom(SixTo(k - 1), NumColors, 1, 0)

\* The number whose i-th base-6 digit is cell i (row-major, from 0).
RECURSIVE IndexFrom(_, _)
IndexFrom(cells, i) ==
    IF i > Len(cells) THEN WideZero
    ELSE MulAddFrom(IndexFrom(cells, i + 1), NumColors, 1, cells[i])

IndexOf(b) == IndexFrom(b.cells, 1)

(***************************************************************************)
(* SpecPerm: Board::permutation(size, n), called with a u64 n; args.b is   *)
(* a board of that size one asks for.                                      *)
(***************************************************************************)

\* Boards of side 0 .. MaxSide: uniform, striped, one region per cell, and
\* all of colour 0 but the last cell.
AskedBoards ==
    { AffineBoard(s, a, a, c) : s \in 0 .. MaxSide, a \in {0, 1}, c \in {0, 5} }
    \cup { [size |-> s,
            cells |-> [i \in 1 .. s * s |-> IF i = s * s THEN c ELSE 0]] :
              s \in 1 .. MaxSide, c \in Colors }

\* u64 values: small ones, spread ones, u64::MAX and its neighbours in
\* each limb, and the ones whose base-6 digits are the cells of a board
\* above.
PermIndices ==
    { U64(k) : k \in 0 .. MaxIndex }
    \cup { U64(k * 7919) : k \in 0 .. MaxIndex }
    \cup { [i \in 1 .. NumLimbs |-> IF i <= k THEN LimbBase - 1 ELSE 0] :
              k \in 0 .. NumLimbs }
    \cup { [i \in 1 .. NumLimbs |-> IF i = k THEN 1 ELSE 0] :
              k \in 1 .. NumLimbs }
    \cup { Narrow(IndexOf(b)) : b \in { a \in AskedBoards : FitsU64(IndexOf(a)) } }

InitPerm ==
    /\ board = [size |-> 0, cells |-> <<>>]
    /\ call = NoCall
    /\ ndrench = 0
    /\ SolverIdle
    /\ idmap = <<>>
    /\ bench = NoBench
    /\ \E n \in PermIndices, asked \in AskedBoards :
          args = [a |-> n, b |-> asked, sa |-> {}, sb |-> {}]
    /\ iter = NoIter
    /\ walk = NoWalk

\* board = Board::permutation(size, n).
Permutation ==
    /\ call.op = "none"
    /\ board' = permutation(args.b.size, args.a)
    /\ call' = [NoCall EXCEPT !.op = "permutation"]
    /\ UNCHANGED <<ndrench, solverVars, auxVars>>

NextPerm ==
    \/ Permutation

SpecPerm == InitPerm /\ [][NextPerm]_vars

(***************************************************************************)
(* SpecModCount: ModCount::solve (solver/mod_count.rs).  The counter of    *)
(* (0..) is a u8, because Color::new takes a u8; walk.start is the start   *)
(* field of the RangeFrom.                                                 *)
(***************************************************************************)

\* The small boards, and boards of one region per cell whose diagonals
\* x + y = d have colour (c - d) mod 6: each diagonal is drenched five
\* moves after the one before it.
CycleBoards ==
    SmallBoards
    \cup { AffineBoard(s, NumColors - 1, NumColors - 1, 0) :
              s \in {MaxSize + 1, MaxCycleSide} }

InitModCount ==
    /\ board \in CycleBoards
    /\ call = NoCall
    /\ ndrench = 0
    /\ SolverIdle
    /\ AuxIdle

\* Entry of ModCount::solve: the chain is built over (0..) and b.
ModCountEnter ==
    /\ pc = "start"
    /\ walk' = [b |-> board, solution |-> <<>>, start |-> 0]
    /\ pc' = "cycle"
    /\ UNCHANGED <<g, colored_nodes, states, new_states, depth, result, valid>>
    /\ UNCHANGED <<boardVars, idmap, args, iter, bench>>

\* One pull of collect() through the chain on a board that is not
\* drenched: RangeFrom::next yields start and adds one to it, which
\* overflows at 255 (a panic with overflow checks, else a wrap to 0); the
\* colour start % 6 is drenched and collected.
ModCountStep ==
    /\ pc = "cycle"
    /\ ~is_drenched(walk.b)
    /\ \E overflow_checks \in (IF walk.start + 1 >= U8Modulus
                                THEN BOOLEAN ELSE {FALSE}) :
          IF overflow_checks
          THEN /\ pc' = "panic"
               /\ UNCHANGED walk
          ELSE /\ walk' = [b |-> drench(walk.b, walk.start % NumColors),
                           solution |-> Append(walk.solution,
                                               walk.start % NumColors),
                           start |-> WrapU8(walk.start + 1)]
               /\ UNCHANGED pc
    /\ UNCHANGED <<g, colored_nodes, states, new_states, depth, result, valid>>
    /\ UNCHANGED <<boardVars, idmap, args, iter, bench>>

\* The pull on a drenched board: take_while ends the chain and solve
\* returns Ok of what was collected.
ModCountReturn ==
    /\ pc = "cycle"
    /\ is_drenched(walk.b) = TRUE
    /\ \E overflow_checks \in (IF walk.start + 1 >= U8Modulus
                                THEN BOOLEAN ELSE {FALSE}) :
          IF overflow_checks
          THEN /\ pc' = "panic"
               /\ UNCHANGED <<walk, result>>
          ELSE /\ walk' = [walk EXCEPT !.start = WrapU8(walk.start + 1)]
               /\ result' = [ok |-> TRUE, moves |-> walk.solution]
               /\ pc' = "done"
    /\ UNCHANGED <<g, colored_nodes, states, new_states, depth, valid>>
    /\ UNCHANGED <<boardVars, idmap, args, iter, bench>>

NextModCount ==
    \/ ModCountEnter
    \/ ModCountStep
    \/ ModCountReturn

SpecModCount == InitModCount /\ [][NextModCount]_vars

(***************************************************************************)
(* SpecBench: run_benchmark (bench.rs).  bench.runs[i] is the closure call *)
(* for index i - 1 of (0..count).into_par_iter(): its position pc, its     *)
(* board, the result res of player.solve, the progress counter cur it has  *)
(* read, and what it returned (ret).  The calls are interleaved freely;    *)
(* the player is a Box<Solver>, so solve may return any result.            *)
(***************************************************************************)

\* The value of bench.mutex while no run holds pb.
Unlocked == 0

\* Boards gen_board may return: a uniform one, and one that colour 1
\* drenches.
BenchBoards == { permutation(1, U64(0)), permutation(2, U64(258)) }

\* Results player.solve may return.
BenchResults ==
    { [ok |-> o, moves |-> m] : o \in BOOLEAN, m \in { <<>>, <<1>> } }

NoOutcome == [some |-> FALSE]

InitBench ==
    /\ board = [size |-> 0, cells |-> <<>>]
    /\ call = NoCall
    /\ ndrench = 0
    /\ SolverIdle
    /\ idmap = <<>>
    /\ args = NoArgs
    /\ iter = NoIter
    /\ walk = NoWalk
    /\ \E algo_ok \in BOOLEAN, progress \in BOOLEAN, count \in 0 .. MaxBenchRuns :
          bench = [main |-> "par",
                   algo_ok |-> algo_ok,
                   progress |-> progress,
                   count |-> count,
                   mutex |-> Unlocked,
                   pb |-> 0,
                   no_solution_count |-> 0,
                   runs |-> [i \in 1 .. count |->
                               [pc |-> "gen", board |-> <<>>, res |-> <<>>,
                                cur |-> 0, ret |-> <<>>]],
                   tally |-> 0,
                   benchmark |-> <<>>,
                   stats |-> <<>>]

\* What every action of run_benchmark leaves alone.
BenchFrame == UNCHANGED <<boardVars, solverVars, idmap, args, iter, walk>>

\* gen_board(init_algo, size): a board, or Err and the call returns None.
BenchGen(i) ==
    /\ bench.main = "par"
    /\ bench.runs[i].pc = "gen"
    /\ IF bench.algo_ok
       THEN \E b \in BenchBoards :
               bench' = [bench EXCEPT !.runs[i].board = b,
                                      !.runs[i].pc = "solve"]
       ELSE bench' = [bench EXCEPT !.runs[i].ret = <<NoOutcome>>,
                                   !.runs[i].pc = "done"]
    /\ BenchFrame

\* res = Some(player.solve(board)).
BenchSolve(i) ==
    /\ bench.main = "par"
    /\ bench.runs[i].pc = "solve"
    /\ \E res \in BenchResults :
          bench' = [bench EXCEPT
                      !.runs[i].res = res,
                      !.runs[i].pc = IF bench.progress THEN "lock" ELSE "match"]
    /\ BenchFrame

\* A variant of pb.lock() that does not wait for the holder.
BenchLockNoWait(i) ==
    /\ bench.main = "par"
    /\ bench.runs[i].pc = "lock"
    /\ bench' = [bench EXCEPT !.mutex = i, !.runs[i].pc = "inc"]
    /\ BenchFrame

\* pb.lock().unwrap(): waits until no run holds the mutex.
BenchLock(i) ==
    /\ bench.main = "par"
    /\ bench.runs[i].pc = "lock"
    /\ bench.mutex = Unlocked
    /\ bench' = [bench EXCEPT !.mutex = i, !.runs[i].pc = "inc"]
    /\ BenchFrame

\* ProgressBar::inc under the guard: the counter is read ...
BenchIncRead(i) ==
    /\ bench.main = "par"
    /\ bench.runs[i].pc = "inc"
    /\ bench' = [bench EXCEPT !.runs[i].cur = bench.pb,
                              !.runs[i].pc = "add"]
    /\ BenchFrame

\* ... and written back plus one; the guard is dropped at the end of the
\* statement.
BenchIncWrite(i) ==
    /\ bench.main = "par"
    /\ bench.runs[i].pc = "add"
    /\ bench' = [bench EXCEPT !.pb = bench.runs[i].cur + 1,
                              !.mutex = Unlocked,
                              !.runs[i].pc = "match"]
    /\ BenchFrame

\* match res.unwrap(): Ok gives Some(run_outcome); Err adds one to
\* no_solution_count (fetch_add) and gives None.
BenchMatch(i) ==
    /\ bench.main = "par"
    /\ bench.runs[i].pc = "match"
    /\ IF bench.runs[i].res.ok
       THEN bench' = [bench EXCEPT
                        !.runs[i].ret = << [some |-> TRUE, run |-> i,
                                            board |-> bench.runs[i].board,
                                            moves |-> bench.runs[i].res.moves] >>,
                        !.runs[i].pc = "done"]
       ELSE bench' = [bench EXCEPT
                        !.no_solution_count = @ + 1,
                        !.runs[i].ret = <<NoOutcome>>,
                        !.runs[i].pc = "done"]
    /\ BenchFrame

\* benchmark.into_iter().filter_map(|e| e): the Some slots, by index.
RECURSIVE filter_map(_, _)
filter_map(runs, i) ==
    IF i > Len(runs) THEN <<>>
    ELSE (IF runs[i].ret[1].some THEN <<runs[i].ret[1]>> ELSE <<>>)
         \o filter_map(runs, i + 1)

\* The filter by replay: the runs whose moves leave a clone of their board
\* drenched.
RECURSIVE filter_valid(_, _)
filter_valid(benchmark, k) ==
    IF k > Len(benchmark) THEN <<>>
    ELSE (IF is_drenched(replay(benchmark[k].board, benchmark[k].moves, 1))
          THEN <<benchmark[k]>> ELSE <<>>)
         \o filter_valid(benchmark, k + 1)

\* After collect_into: the tally is loaded, the slots are filtered twice,
\* and min_by_key(...).unwrap() panics when no valid run is left.
BenchReport ==
    /\ bench.main = "par"
    /\ \A i \in 1 .. bench.count : bench.runs[i].pc = "done"
    /\ LET benchmark == filter_map(bench.runs, 1)
           valid_runs == filter_valid(benchmark, 1)
       IN  bench' = [bench EXCEPT
                       !.tally = bench.no_solution_count,
                       !.benchmark = benchmark,
                       !.stats = valid_runs,
                       !.main = IF valid_runs = <<>> THEN "panic"
                                ELSE "reported"]
    /\ BenchFrame

NextBench ==
    \/ \E i \in 1 .. bench.count :
          \/ BenchGen(i)
          \/ BenchSolve(i)
          \/ BenchLock(i)
          \/ BenchIncRead(i)
          \/ BenchIncWrite(i)
          \/ BenchMatch(i)
    \/ BenchReport

SpecBench == InitBench /\ [][NextBench]_vars

(***************************************************************************)
(* Notions the properties are stated with, defined on the cells directly.  *)
(***************************************************************************)

Cells(b) == { <<x, y>> : x \in 0 .. (b.size - 1), y \in 0 .. (b.size - 1) }

ColorAt(b, p) == b.cells[p[2] * b.size + p[1] + 1]

Adjacent4(p, q) ==
    \/ p[1] = q[1] /\ (p[2] = q[2] + 1 \/ q[2] = p[2] + 1)
    \/ p[2] = q[2] /\ (p[1] = q[1] + 1 \/ q[1] = p[1] + 1)

\* The least set of cells holding R and closed under 4-adjacent cells of
\* colour col.
RECURSIVE SameColorClosure(_, _, _)
SameColorClosure(b, col, R) ==
    LET more == { q \in Cells(b) \ R :
                    ColorAt(b, q) = col /\ \E p \in R : Adjacent4(p, q) }
    IN  IF more = {} THEN R ELSE SameColorClosure(b, col, R \cup more)

\* The maximal 4-connected same-colour region holding cell p.
RegionOf(b, p) == SameColorClosure(b, ColorAt(b, p), {p})

\* The cells 4-adjacent to a cell of R and of another colour than col.
BorderOf(b, col, R) ==
    { q \in Cells(b) : ColorAt(b, q) # col /\ \E p \in R : Adjacent4(p, q) }

Uniform(b) == \A p \in Cells(b), q \in Cells(b) : ColorAt(b, p) = ColorAt(b, q)

SeqToSet(sq) == { sq[i] : i \in 1 .. Len(sq) }

\* Node ids of the graph, the neighbours of a node as a set of ids, and the
\* frontier of a set of owned nodes.
NodeIds(gr) == 0 .. (Len(gr.nodes) - 1)
Neighbors(gr, n) == members(gr.nodes[n + 1].adjacent)
Frontier(gr, S) == (UNION { Neighbors(gr, n) : n \in S }) \ S

\* The levels of an unpruned breadth-first search over sets of owned nodes
\* that tries every colour present in the frontier; the result is the number
\* of moves after which some set has an empty frontier, NoLength when the
\* levels run out first.
NoLength == 0 - 1

NextOwned(gr, S) ==
    { S \cup { n \in Frontier(gr, S) : gr.nodes[n + 1].color = c } :
        c \in { gr.nodes[n + 1].color : n \in Frontier(gr, S) } }

RECURSIVE BruteForceLength(_, _, _)
BruteForceLength(gr, level, d) ==
    IF level = {} \/ d > Len(gr.nodes)
    THEN NoLength
    ELSE IF \E S \in level : Frontier(gr, S) = {}
         THEN d
         ELSE BruteForceLength(gr, UNION { NextOwned(gr, S) : S \in level },
                               d + 1)

\* The search of Exact::solve with the pruning step left out of every
\* level; <<NoLength>> when a level comes out empty.
RECURSIVE SolveUnpruned(_, _, _, _)
SolveUnpruned(gr, cn, sts, d) ==
    LET r == expand(gr, cn, sts)
    IN  IF r.found THEN r.moves
        ELSE IF r.new_states = <<>> \/ d > Len(gr.nodes) THEN <<NoLength>>
             ELSE SolveUnpruned(gr, cn, r.new_states, d + 1)

Returned == pc \in {"done", "verified"}
InLoop == pc \in {"prune", "expand"}

(***************************************************************************)
(* The properties.                                                         *)
(***************************************************************************)

\* C1: for every board of at most 256 regions, Exact::solve returns Ok(moves)
\* and replaying the moves with drench leaves the board uniform.  Stated on
\* runs: a returned result is Ok and replays to a uniform board, the replay
\* check of run_benchmark accepts it, solve does not panic, and in its loop the
\* level it expands yields a child (solve is deterministic: a level without
\* children is followed by empty levels for ever, and nothing is returned).
C1_SolveReturnsUniform ==
    board.size <= CapSide =>
        /\ pc # "panic"
        /\ Returned =>
              /\ result.ok
              /\ is_drenched(replay(board, result.moves, 1))
        /\ pc = "verified" => valid
        /\ pc = "expand" =>
              \E i \in 1 .. Len(states) :
                  adj_colors_of(colored_nodes, states[i]) # colorset_new

\* C2: the returned solution has minimum length: the length found by the
\* unpruned breadth-first search over the same graph; a checkerboard
\* [[A, B], [B, A]] with A # B takes exactly 2 moves.
C2_MinimumLength ==
    (Returned /\ ~Uniform(board)) =>
        /\ Len(result.moves) = BruteForceLength(g, {{0}}, 0)
        /\ (board.size = 2
            /\ ColorAt(board, <<0, 0>>) = ColorAt(board, <<1, 1>>)
            /\ ColorAt(board, <<1, 0>>) = ColorAt(board, <<0, 1>>))
           => Len(result.moves) = 2

\* A checkerboard of side 2 solved, and a board that takes 5 moves or more.
C2_Witness ==
    /\ pc = "done"
    /\ \/ /\ board.size = 2
          /\ ColorAt(board, <<0, 0>>) = ColorAt(board, <<1, 1>>)
          /\ ColorAt(board, <<1, 0>>) = ColorAt(board, <<0, 1>>)
          /\ ColorAt(board, <<0, 0>>) # ColorAt(board, <<1, 0>>)
          /\ Len(result.moves) = 2
       \/ Len(result.moves) >= 5

\* C3: for a uniform board solve returns Ok with no moves, and has neither
\* built the graph nor entered the search loop.
C3_UniformReturnsEmpty ==
    (Uniform(board) /\ pc # "start") =>
        /\ Returned
        /\ result = [ok |-> TRUE, moves |-> <<>>]
        /\ g = NoGraph
        /\ colored_nodes = <<>>
        /\ states = <<>>
        /\ new_states = <<>>
        /\ depth = 0

\* A uniform board of several cells, solved.
C3_Witness ==
    /\ Uniform(board)
    /\ board.size >= 2
    /\ pc = "done"
    /\ result.moves = <<>>

\* C4: the search with the pruning step and the search without it return
\* solutions of equal length on the same board.
C4_PruningKeepsLength ==
    (Returned /\ ~Uniform(board)) =>
        Len(result.moves) =
            Len(SolveUnpruned(g, colored_nodes, initial_states(g), 0))

\* A solved board on which the two searches return different move lists.
C4_Witness ==
    /\ pc = "done"
    /\ ~Uniform(board)
    /\ result.moves # SolveUnpruned(g, colored_nodes, initial_states(g), 0)
    /\ Len(result.moves) =
           Len(SolveUnpruned(g, colored_nodes, initial_states(g), 0))

\* C5: on a non-uniform board whose graph has n <= 256 nodes the loop
\* returns while it processes a depth d <= n - 2 and does not iterate for
\* ever.  Stated on runs: while solve is in its loop the depth is at most
\* n - 2 and the level is not empty (an empty level is followed by empty
\* levels only).
C5_ReturnsWithinDepth ==
    (board.size <= CapSide /\ InLoop) =>
        /\ depth <= Len(g.nodes) - 2
        /\ states # <<>>

\* C6: a board of side 16 with 256 regions is supported: Graph::len is the
\* number of nodes, every node id is in the node set of its colour, the
\* sort key does not wrap, and the search goes on to a solution without a
\* panic.
C6_Side16Supported ==
    (board.size <= CapSide /\ pc # "start" /\ ~Uniform(board)) =>
        /\ pc # "panic"
        /\ graph_len(g) = Len(g.nodes)
        /\ \A n \in NodeIds(g) :
              contains(colored_nodes[g.nodes[n + 1].color + 1], n)
        /\ \A i \in 1 .. Len(states) :
              set_len(states[i].owned) <= graph_len(g)
        /\ InLoop => states # <<>>

\* C7: a board of more than 256 regions is rejected with an error before
\* its node ids are used: the search never holds a graph of more than 256
\* nodes, and solve answers such a board with Err.
C7_OverCapacityRejected ==
    (pc # "start" /\ Len(g.nodes) > U8Modulus) =>
        /\ pc = "done"
        /\ ~result.ok
        /\ states = <<>>

\* C8: indexing a board of side `size` at x >= size or y >= size panics,
\* for reading and for writing.
C8_OutOfRangePanics ==
    (call.op \in {"index", "index_mut"}
     /\ (call.pos[1] >= board.size \/ call.pos[2] >= board.size))
        => call.ret = Panic

\* C9: drench(c) sets exactly the cells of the region of (0, 0), taken
\* from the colours before the call, to c and leaves the other cells and
\* the size alone; with c the colour of (0, 0) the board is unchanged.
C9_DrenchFrame ==
    call.op \in {"drench", "drench_v0"} =>
        LET old == call.before
            region == RegionOf(old, <<0, 0>>)
        IN  /\ board.size = old.size
            /\ Len(board.cells) = Len(old.cells)
            /\ \A p \in Cells(old) :
                  ColorAt(board, p) =
                      IF p \in region THEN call.color ELSE ColorAt(old, p)
            /\ call.color = ColorAt(old, <<0, 0>>) => board = old

\* A drench that repainted a region of several cells and left others alone.
C9_Witness ==
    /\ call.op = "drench"
    /\ Cardinality({ p \in Cells(board) :
                       ColorAt(board, p) # ColorAt(call.before, p) }) >= 2
    /\ \E p \in Cells(board) :
          /\ ColorAt(board, p) = ColorAt(call.before, p)
          /\ ColorAt(board, p) # call.color

\* C10: field_coords returns the cells of the region of (0, 0) and the
\* cells 4-adjacent to the region and of another colour; no cell is in both.
C10_FieldCoords ==
    call.op = "field_coords" =>
        LET col == ColorAt(board, <<0, 0>>)
            region == RegionOf(board, <<0, 0>>)
        IN  /\ SeqToSet(call.region) = region
            /\ SeqToSet(call.border) = BorderOf(board, col, region)
            /\ SeqToSet(call.region) \cap SeqToSet(call.border) = {}

\* A region of several cells with a border of several cells.
C10_Witness ==
    /\ call.op = "field_coords"
    /\ Cardinality(SeqToSet(call.region)) >= 3
    /\ Cardinality(SeqToSet(call.border)) >= 2

\* The cells the map of generate_graph sends to node id n, the cells next
\* to a cell, and the pairs of node ids whose cells touch.
NodeCells(n) ==
    { p \in Cells(board) : idmap[p[2] * board.size + p[1] + 1] = n }

CellNeighbors(b, p) ==
    { q \in { <<p[1] - 1, p[2]>>, <<p[1] + 1, p[2]>>,
              <<p[1], p[2] - 1>>, <<p[1], p[2] + 1>> } : q \in Cells(b) }

TouchingIds ==
    { pr \in UNION { { << idmap[p[2] * board.size + p[1] + 1],
                          idmap[q[2] * board.size + q[1] + 1] >> :
                          q \in CellNeighbors(board, p) } :
                      p \in Cells(board) } : pr[1] # pr[2] }

\* The pairs <<a, b>> with b in the adjacency set of node a.
AdjacencyPairs ==
    UNION { { <<a, b>> : b \in members(g.nodes[a + 1].adjacent) } :
            a \in NodeIds(g) }

FourColors(b) ==
    b.size = 2 /\ Cardinality({ b.cells[i] : i \in 1 .. 4 }) = 4

\* Every node id has cells, and its cells are one maximal region.
NodesAreRegions ==
    \A n \in NodeIds(g) :
        /\ NodeCells(n) # {}
        /\ NodeCells(n) = RegionOf(board, CHOOSE p \in NodeCells(n) : TRUE)

\* C11: generate_graph builds one node for every maximal 4-connected region
\* of one colour, with the colour of the region; node 0 is the region of
\* cell (0, 0); a uniform board gives one node.  The regions are matched to
\* the nodes by the map generate_graph keeps.
C11_OneNodePerRegion ==
    pc # "start" =>
        /\ pc = "graph"
        /\ \A p \in Cells(board) :
              LET n == idmap[p[2] * board.size + p[1] + 1]
              IN  /\ n \in NodeIds(g)
                  /\ g.nodes[n + 1].color = ColorAt(board, p)
        /\ NodesAreRegions
        /\ <<0, 0>> \in NodeCells(0)
        /\ Uniform(board) => Len(g.nodes) = 1

\* C12: b is in the adjacency set of a exactly when a # b and a cell of
\* region a is 4-adjacent to a cell of region b; so adjacency is symmetric
\* and has no self-loop; four colours on side 2 give a 4-cycle, a uniform
\* board an empty adjacency set.  Region a is the set of cells the map of
\* generate_graph sends to a, which has to be one region.
C12_AdjacencyIsTouching ==
    pc # "start" =>
        /\ pc = "graph"
        /\ NodesAreRegions
        /\ LET pairs == AdjacencyPairs
           IN  /\ pairs = TouchingIds
               /\ \A pr \in pairs : pr[1] # pr[2] /\ <<pr[2], pr[1]>> \in pairs
        /\ FourColors(board) =>
              /\ Len(g.nodes) = 4
              /\ \A n \in NodeIds(g) : set_len(g.nodes[n + 1].adjacent) = 2
        /\ Uniform(board) => is_empty(g.nodes[1].adjacent)

\* A state owns node 0 and has no node both owned and adjacent.
StateDisjoint(st) ==
    /\ members(st.owned) \cap members(st.adjacent) = {}
    /\ 0 \in members(st.owned)

\* The children the expansion makes of the states of the level at hand,
\* the one solve returns included.
ChildrenOfLevel ==
    UNION { { child(g, colored_nodes, states[i], c) :
                c \in { c \in Colors :
                          colorset_is_set(adj_colors_of(colored_nodes, states[i]), c) } } :
            i \in 1 .. Len(states) }

\* C13: every state of the search, the initial one and every child made,
\* kept or pruned, has owned and adjacent disjoint and owns node 0.
C13_OwnedAdjacentDisjoint ==
    /\ \A i \in 1 .. Len(states) : StateDisjoint(states[i])
    /\ \A i \in 1 .. Len(new_states) : StateDisjoint(new_states[i])
    /\ pc = "expand" => \A ch \in ChildrenOfLevel : StateDisjoint(ch)

\* A level of several states that own several nodes and still have a
\* frontier, before it is pruned.
C13_Witness ==
    /\ pc = "prune"
    /\ depth >= 2
    /\ Len(states) >= 3
    /\ \A i \in 1 .. Len(states) :
          /\ Cardinality(members(states[i].owned)) >= 3
          /\ members(states[i].adjacent) # {}

\* The elements contains finds in a set.
ElemsOf(s) == { q \in 0 .. (U8Modulus - 1) : contains(s, q) }

StrictlyAscending(sq) == \A i \in 1 .. (Len(sq) - 1) : sq[i] < sq[i + 1]

\* C14: on subsets A, B of 0..255 union, intersection, without,
\* is_subset_of, contains and insert give the set union, intersection and
\* difference, inclusion, membership and A with e added; union(A, B) holds
\* A and B and A is a subset of it, the intersection has at most
\* min(|A|, |B|) elements, and A.without(B) shares no element with B.
C14_BitSetLaws ==
    LET A == args.sa
        B == args.sb
    IN  /\ call.op = "union" =>
              /\ call.ret = BitSetOf(A \cup B)
              /\ A \subseteq ElemsOf(call.ret) /\ B \subseteq ElemsOf(call.ret)
              /\ is_subset_of(args.a, call.ret)
        /\ call.op = "intersection" =>
              /\ call.ret = BitSetOf(A \cap B)
              /\ Cardinality(ElemsOf(call.ret)) <= Cardinality(A)
              /\ Cardinality(ElemsOf(call.ret)) <= Cardinality(B)
        /\ call.op = "without" =>
              /\ call.ret = BitSetOf(A \ B)
              /\ ElemsOf(call.ret) \cap B = {}
        /\ call.op = "is_subset_of" => call.ret = (A \subseteq B)
        /\ call.op = "contains" => call.ret = (call.color \in A)
        /\ call.op = "insert" =>
              /\ call.ret = BitSetOf(A \cup {call.color})
              /\ ElemsOf(call.ret) = A \cup {call.color}

\* A difference of two overlapping sets with elements in several blocks.
C14_Witness ==
    /\ call.op = "without"
    /\ args.sa \cap args.sb # {}
    /\ {0, 255} \subseteq args.sa \ args.sb
    /\ args.sb \ args.sa # {}
    /\ ElemsOf(call.ret) = args.sa \ args.sb

\* C15: count_elements_only_in_first(A, B) is the number of elements of A
\* that are not in B.
C15_CountOnlyInFirst ==
    call.op = "count_elements_only_in_first" =>
        call.ret = Cardinality(args.sa \ args.sb)

\* C16: an iteration yields the members of the set, each once, in strictly
\* ascending order, 0 and 255 included, and ends; a new iteration yields
\* the same sequence; the set is left as it was.
C16_IterationAscending ==
    /\ \A r \in 1 .. Len(iter.runs) :
          /\ SeqToSet(iter.runs[r]) = args.sa
          /\ Len(iter.runs[r]) = Cardinality(args.sa)
          /\ StrictlyAscending(iter.runs[r])
          /\ iter.runs[r] = iter.runs[1]
    /\ (iter.runs # <<>> /\ iter.it = <<>>) => iter.runs[1] = items(args.a)
    /\ StrictlyAscending(iter.out)
    /\ SeqToSet(iter.out) \subseteq args.sa
    /\ iter.it # <<>> => iter.it.set = args.a
    /\ args.a = BitSetOf(args.sa)

\* Two iterations over a set of three elements or more with 0 and 255.
C16_Witness ==
    /\ Len(iter.runs) = 2
    /\ {0, 255} \subseteq args.sa
    /\ Cardinality(args.sa) >= 3
    /\ Cardinality(args.sa) < U8Modulus
    /\ Len(iter.runs[2]) = Cardinality(args.sa)

\* The board after the moves lo .. hi - 1 of a list are drenched in turn
\* (the list is split in halves to keep the recursion shallow).
RECURSIVE ReplayRange(_, _, _, _)
ReplayRange(b, moves, lo, hi) ==
    IF hi <= lo THEN b
    ELSE IF hi = lo + 1
         THEN drench(b, moves[lo])
         ELSE LET mid == (lo + hi) \div 2
                  first == ReplayRange(b, moves, lo, mid)
              IN  IF first.size >= 0
                  THEN ReplayRange(first, moves, mid, hi)
                  ELSE first

\* C17: Random::solve returns at most 1000 moves; it returns Ok(s) exactly
\* when replaying s on the board passed in leaves it uniform, also when
\* the 1000th move does it; otherwise it returns Err(s) with s the 1000
\* moves it tried.
C17_RandomResult ==
    /\ Len(walk.solution) <= MAX_MOVES
    /\ pc = "done" =>
          /\ Len(result.moves) <= MAX_MOVES
          /\ result.moves = walk.solution
          /\ result.ok <=>
                Uniform(ReplayRange(board, result.moves, 1,
                                    Len(result.moves) + 1))
          /\ ~result.ok => Len(result.moves) = MAX_MOVES

\* Ok with 1000 moves: the board became uniform by the last move allowed.
C17_Witness ==
    /\ pc = "done"
    /\ result.ok
    /\ Len(result.moves) = MAX_MOVES
    /\ ~Uniform(board)

\* The board has the size asked for and colours in [0, 6), and for n
\* below 6^(size^2) its cells are the base-6 digits of n, whence distinct
\* such n give distinct boards.
DigitsOfIndex ==
    /\ board.size = args.b.size
    /\ Len(board.cells) = board.size * board.size
    /\ \A i \in 1 .. Len(board.cells) : board.cells[i] \in Colors
    /\ WideLess(Wide(args.a), SixTo(board.size * board.size)) =>
          IndexOf(board) = Wide(args.a)

\* C18 as stated: cell i is the i-th base-6 digit of n, and n -> board is
\* a bijection between [0, 6^(size^2)) and the boards of the size: every
\* board asked for is permutation(size, n) for the n its cells spell.
C18_PermutationBijection ==
    call.op = "permutation" =>
        /\ DigitsOfIndex
        /\ FitsU64(IndexOf(args.b))
        /\ permutation(args.b.size, Narrow(IndexOf(args.b))) = args.b

\* C18 amended: as above where 6^(size^2) <= 2^64 (size <= 4); for larger
\* sizes exactly the boards whose index is below 2^64 are produced.
C18_PermutationBijectionU64 ==
    call.op = "permutation" =>
        /\ DigitsOfIndex
        /\ ~WideLess(TwoTo64, SixTo(args.b.size * args.b.size)) =>
              FitsU64(IndexOf(args.b))
        /\ FitsU64(IndexOf(args.b)) =>
              permutation(args.b.size, Narrow(IndexOf(args.b))) = args.b
        /\ board = args.b => Wide(args.a) = IndexOf(args.b)
                              \/ ~WideLess(Wide(args.a),
                                           SixTo(board.size * board.size))

\* A board of several colours was asked for and the call with the index
\* its cells spell, a number of several digits, produced it.
C18_Witness ==
    /\ call.op = "permutation"
    /\ board = args.b
    /\ board.size >= 2
    /\ ~Uniform(board)
    /\ Wide(args.a) = IndexOf(args.b)

\* The colours a state exhausts in one move: some frontier node has the
\* colour, and every node of the colour that the state does not own is in
\* the frontier.
ExhaustedColors(gr, st) ==
    LET own == members(st.owned)
        front == Frontier(gr, own)
    IN  { c \in Colors :
            /\ \E n \in front : gr.nodes[n + 1].color = c
            /\ \A n \in NodeIds(gr) \ own :
                  gr.nodes[n + 1].color = c => n \in front }

\* The colours a state gets a child for.
CandidateColors(st) ==
    { c \in Colors : colorset_is_set(adj_colors_of(colored_nodes, st), c) }

\* C19: a surviving state that can exhaust some colour in one move gets
\* exactly one child, for the lowest-numbered such colour, and no child for
\* any other colour.
C19_ExhaustingColorOnly ==
    pc = "expand" =>
        \A i \in 1 .. Len(states) :
            LET exh == ExhaustedColors(g, states[i])
            IN  exh # {} =>
                  CandidateColors(states[i]) =
                      { CHOOSE c \in exh : \A d \in exh : c <= d }

\* The owned sets of the states of a level.
OwnedOf(st) == members(st.owned)

\* What one pruning step, from the level before to the level kept, must
\* satisfy.
PruneStepOk ==
    /\ SeqToSet(states') \subseteq SeqToSet(states)
    /\ \A i \in 1 .. Len(states') : \A j \in 1 .. Len(states') :
          i # j => ~(OwnedOf(states'[i]) \subseteq OwnedOf(states'[j]))
    /\ \A i \in 1 .. Len(states) : \E j \in 1 .. Len(states') :
          OwnedOf(states[i]) \subseteq OwnedOf(states'[j])
    /\ states # <<>> => states' # <<>>

\* C20: after the pruning step of a level no kept state's owned set is a
\* subset of another kept state's (equal owned sets keep one state), every
\* removed state's owned set is a subset of a kept state's of the level,
\* and a non-empty level keeps at least one state.
C20_PruneKeepsMaximal ==
    [][(pc = "prune" /\ pc' = "expand") => PruneStepOk]_vars

\* A level about to be pruned that holds two states of equal owned sets
\* and a state whose owned set is a proper subset of another's, and of
\* which the pruning step keeps several states.
C20_Witness ==
    /\ pc = "prune"
    /\ depth <= MaxDepth
    /\ \E i \in 1 .. Len(states) : \E j \in 1 .. Len(states) :
          i # j /\ OwnedOf(states[i]) = OwnedOf(states[j])
    /\ \E i \in 1 .. Len(states) : \E j \in 1 .. Len(states) :
          /\ OwnedOf(states[i]) \subseteq OwnedOf(states[j])
          /\ OwnedOf(states[i]) # OwnedOf(states[j])
    /\ Len(prune(g, states)) >= 2
    /\ Len(prune(g, states)) < Len(states)

\* The children of one state, one per candidate colour, with the colour.
ChildrenOf(st) ==
    { [color |-> c, state |-> child(g, colored_nodes, st, c)] :
        c \in CandidateColors(st) }

\* C21: every child is for a colour that has a node in the parent's
\* frontier, and owns strictly more than its parent; hence every state of
\* the level at depth d owns at least d + 1 nodes.
C21_OwnedGrows ==
    /\ InLoop =>
          \A i \in 1 .. Len(states) :
              Cardinality(OwnedOf(states[i])) >= depth + 1
    /\ pc = "expand" =>
          \A i \in 1 .. Len(states) : \A ch \in ChildrenOf(states[i]) :
              /\ \E n \in members(states[i].adjacent) :
                    g.nodes[n + 1].color = ch.color
              /\ OwnedOf(states[i]) \subseteq OwnedOf(ch.state)
              /\ OwnedOf(states[i]) # OwnedOf(ch.state)

\* A state two levels deep that gets children for several colours, one of
\* which gains several nodes at once.
C21_Witness ==
    /\ pc = "expand"
    /\ depth >= 2
    /\ \E i \in 1 .. Len(states) :
          /\ Cardinality(ChildrenOf(states[i])) >= 2
          /\ \E ch \in ChildrenOf(states[i]) :
                Cardinality(OwnedOf(ch.state)) >=
                    Cardinality(OwnedOf(states[i])) + 2

\* What one step of the search loop must satisfy to be level-synchronous.
LevelStepOk ==
    /\ InLoop' => \A i \in 1 .. Len(states') : Len(states'[i].moves) = depth'
    /\ (pc = "prune" /\ pc' = "expand") =>
          /\ depth' = depth
          /\ SeqToSet(states') \subseteq SeqToSet(states)
    /\ (pc = "expand" /\ pc' = "prune") =>
          /\ depth' = depth + 1
          /\ \A i \in 1 .. Len(states) : \A ch \in ChildrenOf(states[i]) :
                ~is_empty(ch.state.adjacent)
    /\ (pc = "expand" /\ pc' = "done") =>
          /\ Len(result'.moves) = depth + 1
          /\ \E i \in 1 .. Len(states) : \E ch \in ChildrenOf(states[i]) :
                ch.state.moves = result'.moves /\ is_empty(ch.state.adjacent)

\* C22: every state of the level processed at depth d has d moves, the
\* pruning step only handles states of that level, a solution returned
\* while depth d is processed has d + 1 moves, and no child with an empty
\* frontier was made at a smaller depth.
C22_LevelSynchronous ==
    [][LevelStepOk]_vars

\* A solution returned from the third level or a later one, which held
\* several states.
C22_Witness ==
    /\ pc = "done"
    /\ depth >= 2
    /\ Len(states) >= 2
    /\ Len(result.moves) = depth + 1

\* No value occurs at two places of a sequence.
NoDuplicates(sq) ==
    \A i \in 1 .. Len(sq) : \A j \in 1 .. Len(sq) : sq[i] = sq[j] => i = j

\* C23: neither the region list nor the border list returned by
\* field_coords holds a coordinate more than once.
C23_FieldCoordsAreSets ==
    call.op = "field_coords" =>
        /\ NoDuplicates(call.region)
        /\ NoDuplicates(call.border)

\* C24: ModCount::solve returns Ok(s) with s[i] = i mod 6 for every index
\* i (from 0), also for i >= 256; s is the shortest prefix of the cycle
\* whose replay leaves the board uniform, so no move follows uniformity.
C24_ModCountCycle ==
    /\ pc # "panic"
    /\ pc \in {"cycle", "done"} =>
          \A i \in 1 .. Len(walk.solution) :
              walk.solution[i] = (i - 1) % NumColors
    /\ pc = "done" =>
          /\ result.ok
          /\ result.moves = walk.solution
          /\ Uniform(ReplayRange(board, result.moves, 1,
                                 Len(result.moves) + 1))
          /\ \A k \in 1 .. Len(result.moves) :
                ~Uniform(ReplayRange(board, result.moves, 1, k))

\* The runs of run_benchmark whose board was generated, and those whose
\* solver returned Err.
BenchGenerated == { i \in 1 .. bench.count : bench.runs[i].board # <<>> }
BenchFailed == { i \in BenchGenerated : ~bench.runs[i].res.ok }
BenchAllDone == \A i \in 1 .. bench.count : bench.runs[i].pc = "done"

\* C25: in run_benchmark, however the runs interleave, once all of them
\* have finished the failure tally is the number of runs whose solver
\* returned Err, the progress bar (when enabled) has one increment per run
\* whose board was generated, each run index has contributed at most one
\* outcome, and only runs whose moves replay to a uniform board are in the
\* statistics.
C25_BenchmarkTallies ==
    /\ BenchAllDone =>
          /\ bench.no_solution_count = Cardinality(BenchFailed)
          /\ bench.progress => bench.pb = Cardinality(BenchGenerated)
          /\ \A i \in 1 .. bench.count : Len(bench.runs[i].ret) = 1
    /\ bench.main \in {"reported", "panic"} =>
          /\ bench.tally = Cardinality(BenchFailed)
          /\ \A k \in 1 .. Len(bench.benchmark) :
                \A l \in 1 .. Len(bench.benchmark) :
                    bench.benchmark[k].run = bench.benchmark[l].run => k = l
          /\ \A k \in 1 .. Len(bench.stats) :
                LET e == bench.stats[k]
                IN  /\ e \in SeqToSet(bench.benchmark)
                    /\ e.run \in BenchGenerated \ BenchFailed
                    /\ e.board = bench.runs[e.run].board
                    /\ e.moves = bench.runs[e.run].res.moves
                    /\ Uniform(ReplayRange(e.board, e.moves, 1,
                                           Len(e.moves) + 1))

\* A benchmark with the progress bar on whose runs are all done: one failed,
\* one is in the statistics, and the bar stands at two.
C25_Witness ==
    /\ bench.main = "reported"
    /\ bench.progress
    /\ bench.count >= 2
    /\ bench.pb >= 2
    /\ bench.tally >= 1
    /\ Len(bench.stats) >= 1

\* The adjacent set of a state is the frontier of its owned set.
AdjacentIsFrontier(st) == members(st.adjacent) = Frontier(g, OwnedOf(st))

\* C26: in every state of the search, adjacent is the union of the graph
\* adjacency sets of the owned nodes minus owned, so states of equal owned
\* sets have equal frontiers.
C26_AdjacentIsFrontier ==
    /\ \A i \in 1 .. Len(states) : AdjacentIsFrontier(states[i])
    /\ \A i \in 1 .. Len(new_states) : AdjacentIsFrontier(new_states[i])
    /\ pc = "expand" => \A ch \in ChildrenOfLevel : AdjacentIsFrontier(ch)
    /\ \A i \in 1 .. Len(states) : \A j \in 1 .. Len(states) :
          OwnedOf(states[i]) = OwnedOf(states[j]) =>
              states[i].adjacent = states[j].adjacent

\* A level, before pruning, with two states of equal owned sets reached by
\* different moves, whose frontier holds several nodes.
C26_Witness ==
    /\ pc = "prune"
    /\ depth >= 2
    /\ \E i \in 1 .. Len(states) : \E j \in 1 .. Len(states) :
          /\ states[i].moves # states[j].moves
          /\ OwnedOf(states[i]) = OwnedOf(states[j])
          /\ Cardinality(members(states[i].adjacent)) >= 2

\* A state of the search against the board its moves lead to: map is the
\* map of generate_graph from cell offsets to node ids.
SimulatesBoard(st, map) ==
    LET after == ReplayRange(board, st.moves, 1, Len(st.moves) + 1)
        fc == field_coords(after)
        NodeOf(p) == map[p[2] * board.size + p[1] + 1]
    IN  /\ SeqToSet(fc[1]) = { p \in Cells(board) : NodeOf(p) \in OwnedOf(st) }
        /\ { NodeOf(p) : p \in SeqToSet(fc[2]) } = members(st.adjacent)
        /\ is_empty(st.adjacent) => Uniform(after)

\* C27: for every state the search creates, replaying its moves with
\* drench on the input board gives a board whose owned region is the union
\* of the regions of the owned nodes and whose border cells lie in exactly
\* the regions of the adjacent nodes; with no adjacent node the replayed
\* board is uniform.
C27_SearchSimulatesBoard ==
    InLoop =>
        LET map == generate_graph_run(board).map
        IN  /\ \A i \in 1 .. Len(states) : SimulatesBoard(states[i], map)
            /\ pc = "expand" =>
                  \A ch \in ChildrenOfLevel : SimulatesBoard(ch, map)

\* A state two levels deep that owns several nodes, one of them a region
\* of several cells, and still has a frontier.
C27_Witness ==
    /\ pc = "expand"
    /\ depth >= 2
    /\ \E i \in 1 .. Len(states) :
          /\ Cardinality(OwnedOf(states[i])) >= 3
          /\ ~is_empty(states[i].adjacent)
          /\ Cardinality(SeqToSet(field_coords(
                 ReplayRange(board, states[i].moves, 1,
                             Len(states[i].moves) + 1))[1])) >=
                 Cardinality(OwnedOf(states[i])) + 1

\* The region of (0, 0) after the first k moves of a list on the input
\* board.
OwnedAfter(moves, k) == RegionOf(ReplayRange(board, moves, 1, k + 1), <<0, 0>>)

\* C28: in a solution Exact::solve returns, the first move is not the
\* initial colour of cell (0, 0) and no two consecutive moves are equal,
\* so every move of the replay strictly enlarges the owned region.
C28_NoIdleMove ==
    (Returned /\ result.ok) =>
        /\ result.moves # <<>> =>
              result.moves[1] # ColorAt(board, <<0, 0>>)
        /\ \A k \in 1 .. (Len(result.moves) - 1) :
              result.moves[k] # result.moves[k + 1]
        /\ \A k \in 1 .. Len(result.moves) :
              /\ OwnedAfter(result.moves, k - 1) \subseteq
                     OwnedAfter(result.moves, k)
              /\ OwnedAfter(result.moves, k - 1) # OwnedAfter(result.moves, k)

\* A returned solution of several moves in which a colour is used twice.
C28_Witness ==
    /\ pc = "done"
    /\ result.ok
    /\ Len(result.moves) >= 3
    /\ \E i \in 1 .. Len(result.moves) : \E j \in 1 .. Len(result.moves) :
          i # j /\ result.moves[i] = result.moves[j]

\* C29: on a non-uniform board whose graph has fewer than 256 nodes, every
\* level of the search holds a state, before and after pruning, and every
\* surviving state has a non-empty frontier and gets at least one child.
C29_NoEmptyLevel ==
    (~Uniform(board) /\ InLoop /\ Len(g.nodes) < U8Modulus) =>
        /\ states # <<>>
        /\ pc = "expand" =>
              \A i \in 1 .. Len(states) :
                  /\ ~is_empty(states[i].adjacent)
                  /\ ChildrenOf(states[i]) # {}

\* A pruned level, three moves deep, of several states.
C29_Witness ==
    /\ pc = "expand"
    /\ ~Uniform(board)
    /\ depth >= 3
    /\ Len(states) >= 2
    /\ \A i \in 1 .. Len(states) : ChildrenOf(states[i]) # {}

\* C30: over any sequence of drench calls the region of (0, 0) after a
\* call holds every cell it held before the call, so a board that is
\* drenched stays drenched under every later drench.
C30_OwnedRegionGrows ==
    [][/\ RegionOf(board, <<0, 0>>) \subseteq RegionOf(board', <<0, 0>>)
       /\ is_drenched(board) => is_drenched(board')]_vars

\* After a second drench: the region of (0, 0) has taken in cells of a
\* bordering region of the new colour, and the board is not yet uniform.
C30_Witness ==
    /\ call.op = "drench"
    /\ ndrench >= 2
    /\ ~Uniform(board)
    /\ Cardinality(RegionOf(board, <<0, 0>>)) >=
           Cardinality(RegionOf(call.before, <<0, 0>>)) + 2
    /\ \E p \in RegionOf(board, <<0, 0>>) \ RegionOf(call.before, <<0, 0>>) :
          ColorAt(call.before, p) = call.color

====
